---------------------------- MODULE Spec2Model ----------------------------
(***************************************************************************)
(* EMI_RNNTrainer (tf/edgeml/trainer/emirnnTrainer.py) as a state machine. *)
(*                                                                         *)
(* The state is the trainer object's fields, the part of the TensorFlow    *)
(* default graph the trainer writes (the nodes it adds and the two named   *)
(* collections), the frame of the method invocation in progress or just    *)
(* finished, and the locals of trainModel's loop together with the         *)
(* session's data iterator.  Execution is sequential: a method is invoked  *)
(* only when no invocation is outstanding.                                 *)
(*                                                                         *)
(* TensorFlow's own operators (reshape, tile, Variable, l2_loss,           *)
(* AdamOptimizer.minimize, add_to_collection) are taken to succeed and to  *)
(* add a node to the graph; a graph node handle is the node's position in  *)
(* graphOps, and Python's None is the handle 0.                            *)
(***************************************************************************)
EXTENDS Integers, Sequences, FiniteSets

\* ------------------------------------------------------------- bounds
\* Largest tensor dimension, numTimeSteps and numOutput that are tried.
MaxDim == 2
\* Largest number of rows of a lossIndicator array.
MaxRows == 2
\* Largest number of columns of a lossIndicator array.
MaxCols == 2
\* Largest number of batches the session's iterator holds.
MaxData == 2
\* Largest echoInterval passed to trainModel.
MaxInterval == 2
\* Largest length of a graph collection reached by explicit
\* createOpCollections() calls.
MaxColl == 2
\* currentBatch is held exactly up to MaxBatch; a run of trainModel that
\* ends makes at most 2*MaxData+2 iterations.
MaxBatch == 2 * MaxData + 2

\* ------------------------------------------------------------- values
None == 0
NoGraph == "None"
supportedLosses == {"xentropy", "l2"}
supportedOptimizers == {"Adam"}
LossTypes == supportedLosses \cup {"hinge"}
Optimizers == supportedOptimizers \cup {"SGD"}
Graphs == {NoGraph, "graph"}

Dims == 1..MaxDim
\* A tensor's static shape is the sequence of its dimensions.  The leading
\* (batch) dimension is never read by the trainer and is held at 1.
Shapes(r) == {s \in [1..r -> Dims] : r = 0 \/ s[1] = 1}
PredShapes == Shapes(3) \cup Shapes(4)
TargetShapes == Shapes(1) \cup Shapes(2) \cup Shapes(3)

\* A numpy array: its ndim and its entries.  A 2-D array is the sequence of
\* its rows; a 1-D array of n entries is held as one row of n entries.
Row(c) == [1..c -> {0, 1}]
Matrices == UNION {[1..r -> Row(c)] : r \in 0..MaxRows, c \in 1..MaxCols}
Indicators ==
    {[ndim |-> 2, rows |-> m] : m \in Matrices}
        \cup {[ndim |-> 1, rows |-> <<r>>] : r \in Row(MaxCols)}
NoArray == [ndim |-> 0, rows |-> <<>>]

VARIABLES
    constructed,          \* the constructor has returned a trainer
    numTimeSteps, numOutput, graph, lossType, optimizer, automode,
    validInit,            \* self.__validInit
    graphCreated, lossOp, trainOp, lossIndicatorTensor,
    graphOps,             \* names of the nodes the trainer added to the graph
    trainColl, lossColl,  \* collections 'EMI-train-op' and 'EMI-loss-op'
    frame,                \* the invocation in progress or just finished
    pc,                   \* trainModel: "idle", "loop", "done", "raised"
    currentBatch, echoInterval, echoCB,
    dataLeft,             \* batches the session's iterator still holds
    sessData,             \* batches it held when trainModel was entered
    runCalls,             \* sess.run calls made by this trainModel
    trainRuns,            \* those of them whose fetches hold self.trainOp
    echoLog,              \* batch indices the echo callback was invoked with
    raised,               \* the exception that left the latest iteration
    wrapped               \* currentBatch has passed MaxBatch

config == <<numTimeSteps, numOutput, graph, lossType, optimizer, automode>>
fields == <<config, validInit, graphCreated, lossOp, trainOp,
            lossIndicatorTensor>>
tfGraph == <<graphOps, trainColl, lossColl>>
loop == <<pc, currentBatch, echoInterval, echoCB, dataLeft, sessData,
          runCalls, trainRuns, echoLog, raised, wrapped>>
vars == <<constructed, fields, tfGraph, frame, loop>>

\* ------------------------------------------------------------- frames
NoError == [err |-> "none", line |-> 0]
Raise(e, l) == [err |-> e, line |-> l]
NoRet == <<None, None>>

\* The arguments of an invocation: those of __call__, those of __init__ that
\* its assertions read.
NoArgs == [predicted |-> <<>>, target |-> <<>>, lossIndicator |-> NoArray,
           lossType |-> "None", optimizer |-> "None"]
CallArgs(p, t, li) ==
    [NoArgs EXCEPT !.predicted = p, !.target = t, !.lossIndicator = li]
InitArgs(lt, opt) == [NoArgs EXCEPT !.lossType = lt, !.optimizer = opt]

\* op: the method; args: its arguments; entry: graphCreated when it was
\* entered; err, line: the exception that left it and the source line that
\* raised it; ret: the pair it returned.
Frame(o, a, r, x) ==
    [op |-> o, args |-> a, entry |-> graphCreated, err |-> x.err,
     line |-> x.line, ret |-> r]
NoFrame == [op |-> "none", args |-> NoArgs, entry |-> FALSE, err |-> "none",
            line |-> 0, ret |-> NoRet]

Init ==
    /\ constructed = FALSE
    /\ numTimeSteps = 0 /\ numOutput = 0 /\ graph = NoGraph
    /\ lossType = "None" /\ optimizer = "None" /\ automode = FALSE
    /\ validInit = FALSE /\ graphCreated = FALSE
    /\ lossOp = None /\ trainOp = None /\ lossIndicatorTensor = None
    /\ graphOps = <<>> /\ trainColl = <<>> /\ lossColl = <<>>
    /\ frame = NoFrame
    /\ pc = "idle" /\ currentBatch = 0 /\ echoInterval = 1
    /\ echoCB = "default" /\ dataLeft = 0 /\ sessData = 0
    /\ runCalls = 0 /\ trainRuns = 0 /\ echoLog = <<>>
    /\ raised = "none" /\ wrapped = FALSE

\* ------------------------------------------------------------ __init__
\* Variant of initAsserts with the assertion of line 51 left out.
initAssertsLossOnly(lt, opt) ==
    IF lt \notin supportedLosses THEN Raise("AssertionError", 50) ELSE NoError

\* The two assertions that end __init__: the failing one, or NoError.
initAsserts(lt, opt) ==
    IF lt \notin supportedLosses THEN Raise("AssertionError", 50)
    ELSE IF opt \notin supportedOptimizers THEN Raise("AssertionError", 51)
    ELSE NoError

\* EMI_RNNTrainer(T, O, graph=g, lossType=lt, optimizer=opt, automode=am).
\* When an assertion fails the exception leaves __init__ and the caller
\* obtains no object: the fields assigned so far belong to no trainer.
init(T, O, g, lt, opt, am) ==
    /\ LET a == initAsserts(lt, opt) IN
        /\ frame' = Frame("init", InitArgs(lt, opt), NoRet, a)
        /\ IF a.err = "none"
             THEN /\ constructed' = TRUE
                  /\ numTimeSteps' = T /\ numOutput' = O /\ graph' = g
                  /\ lossType' = lt /\ optimizer' = opt /\ automode' = am
                  /\ validInit' = FALSE /\ graphCreated' = FALSE
                  /\ lossOp' = None /\ trainOp' = None
                  /\ lossIndicatorTensor' = None
             ELSE UNCHANGED <<constructed, fields>>
    /\ UNCHANGED <<tfGraph, loop>>

\* ------------------------------------------------- __findIndicatorStart
RECURSIVE firstOne(_, _)
\* The loop of lines 55-58 from row i (0-based) on.
firstOne(rows, i) ==
    IF i >= Len(rows) THEN -1
    ELSE IF rows[i + 1][1] = 1 THEN i
    ELSE firstOne(rows, i + 1)

findIndicatorStart(lossIndicator) == firstOne(lossIndicator.rows, 0)

\* ------------------------------------------------------- __validateInit
RECURSIVE sumRow(_, _)
sumRow(row, j) == IF j > Len(row) THEN 0 ELSE row[j] + sumRow(row, j + 1)

RECURSIVE sumRows(_, _, _)
\* np.sum(rows[lo:hi]), 0-based, hi exclusive.
sumRows(rows, lo, hi) ==
    IF lo >= hi THEN 0 ELSE sumRow(rows[lo + 1], 1) + sumRows(rows, lo + 1, hi)

\* The first statement of __validateInit that raises, or NoError.
validateInit(predicted, target, lossIndicator) ==
    IF Len(predicted) # 4 THEN Raise("AssertionError", 62)
    ELSE IF predicted[4] # numOutput THEN Raise("AssertionError", 63)
    ELSE IF predicted[3] # numTimeSteps THEN Raise("AssertionError", 64)
    ELSE IF Len(target) < 2 THEN Raise("IndexError", 65)
    ELSE IF predicted[2] # target[2] THEN Raise("AssertionError", 65)
    ELSE IF Len(target) # 3 THEN Raise("AssertionError", 66)
    ELSE IF target[3] # numOutput THEN Raise("AssertionError", 67)
    ELSE IF lossIndicator.ndim # 2 THEN Raise("AssertionError", 69)
    ELSE LET idx == findIndicatorStart(lossIndicator)
             rows == lossIndicator.rows
             expected == (Len(rows) - idx) * numOutput
         IN  IF idx < 0 THEN Raise("AssertionError", 71)
             ELSE IF sumRows(rows, 0, idx) # 0 THEN Raise("AssertionError", 72)
             ELSE IF sumRows(rows, idx, Len(rows)) # expected
                  THEN Raise("AssertionError", 74)
             ELSE NoError

\* ------------------------------------------------------- graph building
\* __createLossOp: the lossIndicator variable (line 104) and the loss node
\* (line 122 or 124) are added to the graph `ops`.
createLossOp(ops, predicted, target, lossIndicator) ==
    LET withVar == Append(ops, "lossIndicator")
        withLoss == Append(withVar, IF lossType = "xentropy"
                                      THEN "xentropy-loss" ELSE "l2-loss")
    IN  [graphOps |-> withLoss, lossIndicatorTensor |-> Len(withVar),
         lossOp |-> Len(withLoss)]

\* Variant of createTrainOp that builds the node and returns nothing.
createTrainOpNoReturn(ops) ==
    [graphOps |-> Append(ops, "Adam"), trainOp |-> None]

\* __createTrainOp: AdamOptimizer(stepSize).minimize(lossOp) adds one node.
createTrainOp(ops) ==
    [graphOps |-> Append(ops, "Adam"), trainOp |-> Len(ops) + 1]

\* Variant of createOpCollections with the two collections exchanged.
createOpCollectionsSwapped(tOp, lOp) ==
    /\ trainColl' = Append(trainColl, lOp)
    /\ lossColl' = Append(lossColl, tOp)

\* createOpCollections with self.trainOp = tOp and self.lossOp = lOp.
createOpCollections(tOp, lOp) ==
    /\ trainColl' = Append(trainColl, tOp)
    /\ lossColl' = Append(lossColl, lOp)

createGraph(predicted, target, lossIndicator) ==
    LET l == createLossOp(graphOps, predicted, target, lossIndicator)
        t == createTrainOp(l.graphOps)
    IN  /\ lossIndicatorTensor' = l.lossIndicatorTensor
        /\ lossOp' = l.lossOp
        /\ trainOp' = t.trainOp
        /\ graphOps' = t.graphOps
        /\ IF automode THEN createOpCollections(t.trainOp, l.lossOp)
                       ELSE UNCHANGED <<trainColl, lossColl>>
        /\ graphCreated' = TRUE

\* ------------------------------------------------------------ __call__
\* Variant of alreadyBuilt whose test never succeeds.
neverBuilt == FALSE

\* The test of line 78.
alreadyBuilt == graphCreated = TRUE

call(predicted, target, lossIndicator) ==
    LET a == CallArgs(predicted, target, lossIndicator) IN
    /\ IF alreadyBuilt
         THEN /\ frame' =
                   IF lossOp = None
                     THEN Frame("call", a, NoRet, Raise("AssertionError", 79))
                   ELSE IF trainOp = None
                     THEN Frame("call", a, NoRet, Raise("AssertionError", 80))
                   ELSE Frame("call", a, <<lossOp, trainOp>>, NoError)
              /\ UNCHANGED <<fields, tfGraph>>
         ELSE LET v == validateInit(predicted, target, lossIndicator) IN
              IF v.err # "none"
                THEN /\ frame' = Frame("call", a, NoRet, v)
                     /\ UNCHANGED <<fields, tfGraph>>
              ELSE IF graph = NoGraph
                THEN /\ validInit' = TRUE
                     /\ createGraph(predicted, target, lossIndicator)
                     /\ frame' =
                          IF graphCreated'
                            THEN Frame("call", a, <<lossOp', trainOp'>>,
                                       NoError)
                            ELSE Frame("call", a, NoRet,
                                       Raise("AssertionError", 88))
                     /\ UNCHANGED config
                \* self._restoreGraph is defined nowhere in the class.
                ELSE /\ validInit' = TRUE
                     /\ frame' = Frame("call", a, NoRet,
                                       Raise("AttributeError", 87))
                     /\ UNCHANGED <<config, graphCreated, lossOp, trainOp,
                                    lossIndicatorTensor, tfGraph>>
    /\ UNCHANGED <<constructed, loop>>

\* ----------------------------------------------------------- trainModel
\* What one sess.run call, or one echo callback invocation, comes to:
\* raised: the exception that leaves it ("none": it returns); runs: the
\* sess.run calls made; ok: those that returned a batch's result; train:
\* those whose fetches hold self.trainOp.
Outcome(e, r, k, t) == [raised |-> e, runs |-> r, ok |-> k, train |-> t]

\* sess.run(fetches, feed_dict=feedDict) with `left` batches in the iterator:
\* tf.errors.OutOfRangeError once the data is exhausted; before that the
\* batch's result, or another error of the session.
sessRun(left, t) ==
    IF left = 0 THEN {Outcome("OutOfRangeError", 1, 0, t)}
    ELSE {Outcome("none", 1, 1, t), Outcome("InvalidArgumentError", 1, 0, t)}

\* Variant of echoCBDefault that fetches lossOp alone.
echoCBLossOnly == sessRun(dataLeft, 0)

\* __echoCB: one sess.run of [trainOp, lossOp], then the loss is printed.
echoCBDefault == sessRun(dataLeft, 1)

\* An echo callback supplied by the caller: it returns without touching the
\* session, makes one sess.run, or raises on its own account.
echoCBCustom ==
    {Outcome("none", 0, 0, 0), Outcome("OutOfRangeError", 0, 0, 0),
     Outcome("ValueError", 0, 0, 0)} \cup sessRun(dataLeft, 0)

\* trainModel(sess, echoInterval=interval, echoCB=cb) with a session whose
\* iterator holds n batches: lines 152-154, up to the loop.
trainModel(interval, cb, n) ==
    /\ frame' = Frame("trainModel", NoArgs, NoRet, NoError)
    /\ pc' = "loop" /\ currentBatch' = 0
    /\ echoInterval' = interval /\ echoCB' = cb
    /\ dataLeft' = n /\ sessData' = n
    /\ runCalls' = 0 /\ trainRuns' = 0 /\ echoLog' = <<>>
    /\ raised' = "none" /\ wrapped' = FALSE
    /\ UNCHANGED <<constructed, fields, tfGraph>>

\* currentBatch += 1.  Python's integer is unbounded and the loop reads it
\* only modulo echoInterval: past MaxBatch the model keeps its residue.
nextBatch(b) == IF b + 1 > MaxBatch THEN (b + 1) % echoInterval ELSE b + 1

\* Variant of isEcho that echoes one batch early.
isEchoShifted(b) == (b + 1) % echoInterval = 0

\* Whether the iteration at batch b takes the echo branch (line 157).
isEcho(b) == b % echoInterval = 0

\* Variant of caught for a bare except clause.
caughtAny(e) == TRUE

\* The except clause of line 162: whether exception e is caught.
caught(e) == e = "OutOfRangeError"

\* One iteration of the while loop, lines 156-163.  The history variables
\* runCalls, trainRuns and echoLog are kept while currentBatch is exact.
TrainStep ==
    /\ pc = "loop"
    /\ \E o \in (IF isEcho(currentBatch)
                   THEN (IF echoCB = "default" THEN echoCBDefault
                                               ELSE echoCBCustom)
                   ELSE sessRun(dataLeft, 1)) :
        /\ dataLeft' = dataLeft - o.ok
        /\ IF wrapped
             THEN UNCHANGED <<runCalls, trainRuns, echoLog>>
             ELSE /\ runCalls' = runCalls + o.runs
                  /\ trainRuns' = trainRuns + o.train
                  /\ echoLog' = IF isEcho(currentBatch)
                                  THEN Append(echoLog, currentBatch)
                                  ELSE echoLog
        /\ raised' = o.raised
        /\ IF o.raised = "none"
             THEN /\ currentBatch' = nextBatch(currentBatch)
                  /\ wrapped' = (wrapped \/ currentBatch + 1 > MaxBatch)
                  /\ UNCHANGED <<pc, frame>>
           ELSE IF caught(o.raised)
             THEN /\ pc' = "done"
                  /\ UNCHANGED <<currentBatch, wrapped, frame>>
           ELSE /\ pc' = "raised"
                /\ frame' = [frame EXCEPT
                               !.err = o.raised,
                               !.line = IF isEcho(currentBatch) THEN 158
                                                                ELSE 160]
                /\ UNCHANGED <<currentBatch, wrapped>>
    /\ UNCHANGED <<constructed, fields, tfGraph, echoInterval, echoCB,
                   sessData>>

\* The finished invocation's result has reached the caller: its frame, and
\* the locals of a finished trainModel, are gone.
Return ==
    /\ frame # NoFrame /\ pc # "loop"
    /\ frame' = NoFrame
    /\ pc' = "idle" /\ currentBatch' = 0 /\ echoInterval' = 1
    /\ echoCB' = "default" /\ dataLeft' = 0 /\ sessData' = 0
    /\ runCalls' = 0 /\ trainRuns' = 0 /\ echoLog' = <<>>
    /\ raised' = "none" /\ wrapped' = FALSE
    /\ UNCHANGED <<constructed, fields, tfGraph>>

\* ---------------------------------------------------------------- inputs
DefaultTarget == <<1, 1, 1>>
DefaultIndicator == [ndim |-> 2, rows |-> <<<<1>>>>]

\* An argument that validation does not get to read takes one value.
TargetsFor(p) ==
    IF validateInit(p, DefaultTarget, DefaultIndicator).line \in 62..64
      THEN {DefaultTarget} ELSE TargetShapes

IndicatorsFor(p, t) ==
    IF validateInit(p, t, DefaultIndicator).line \in 62..67
      THEN {DefaultIndicator} ELSE Indicators

\* ---------------------------------------------------------------- actions
\* The caller constructs the trainer.
Construct ==
    /\ ~constructed /\ frame = NoFrame
    /\ \E T \in Dims, O \in Dims, g \in Graphs, lt \in LossTypes,
          opt \in Optimizers, am \in BOOLEAN : init(T, O, g, lt, opt, am)

\* The caller calls the trainer on three tensors.
Call ==
    /\ constructed /\ frame = NoFrame
    /\ \E p \in PredShapes : \E t \in TargetsFor(p) :
          \E li \in IndicatorsFor(p, t) : call(p, t, li)

\* The caller invokes trainer.createOpCollections().
CreateOpCollections ==
    /\ constructed /\ frame = NoFrame
    /\ Len(trainColl) < MaxColl
    /\ createOpCollections(trainOp, lossOp)
    /\ frame' = Frame("createOpCollections", NoArgs, NoRet, NoError)
    /\ UNCHANGED <<constructed, fields, graphOps, loop>>

\* The caller invokes trainer.trainModel on a session.
TrainModel ==
    /\ constructed /\ frame = NoFrame
    /\ \E k \in 1..MaxInterval, cb \in {"default", "custom"},
          n \in 0..MaxData : trainModel(k, cb, n)

Next ==
    \/ Construct
    \/ Call
    \/ CreateOpCollections
    \/ TrainModel
    \/ TrainStep
    \/ Return

Spec == Init /\ [][Next]_vars

\* trainModel's loop keeps running: Python executes the next iteration.
LiveSpec == Init /\ [][Next]_vars /\ WF_vars(TrainStep)

\* ================================================================ claims
\* What the latest invocation was given.
argP == frame.args.predicted
argT == frame.args.target
argLI == frame.args.lossIndicator

\* A step in which the caller calls the trainer.
callStep == frame.op = "none" /\ frame'.op = "call"

\* C1: on a trainer built with a supported configuration, with or without
\* a graph object, a call whose inputs pass validation returns a pair of
\* handles that are both not None and leaves graphCreated True.
C1_CallReturnsOps ==
    (frame.op = "call" /\ validateInit(argP, argT, argLI) = NoError)
        => /\ frame.err = "none"
           /\ frame.ret[1] # None /\ frame.ret[2] # None
           /\ graphCreated

\* C3: the constructor fails with an assertion failure exactly on a
\* lossType outside {'xentropy','l2'} or an optimizer other than 'Adam', so
\* no trainer with an unsupported choice exists; a supported combination
\* yields a trainer with graphCreated False and the three handles None.
C3_ConstructorValidates ==
    /\ constructed => lossType \in {"xentropy", "l2"} /\ optimizer = "Adam"
    /\ frame.op = "init" =>
         IF frame.args.lossType \in {"xentropy", "l2"}
               /\ frame.args.optimizer = "Adam"
           THEN /\ frame.err = "none" /\ constructed
                /\ lossType = frame.args.lossType
                /\ optimizer = frame.args.optimizer
                /\ graphCreated = FALSE /\ lossOp = None /\ trainOp = None
                /\ lossIndicatorTensor = None
           ELSE frame.err = "AssertionError" /\ ~constructed

\* C3 witness: a construction with a supported loss and an unsupported
\* optimizer has been refused.
C3_Witness ==
    /\ frame.op = "init" /\ frame.err = "AssertionError"
    /\ frame.args.lossType = "l2" /\ frame.args.optimizer = "SGD"

\* The ways C4 calls an input malformed.
malformedShapes(p, t) ==
    \/ Len(p) # 4
    \/ p[4] # numOutput
    \/ p[3] # numTimeSteps
    \/ Len(t) # 3
    \/ p[2] # t[2]
    \/ t[3] # numOutput

\* A 2-D array made of a block of all-zero rows followed by a non-empty
\* block of all-one rows.
zerosThenOnes(li) ==
    /\ li.ndim = 2
    /\ \E k \in 1..Len(li.rows) :
         /\ \A i \in 1..(k - 1) : \A j \in 1..Len(li.rows[i]) : li.rows[i][j] = 0
         /\ \A i \in k..Len(li.rows) :
              \A j \in 1..Len(li.rows[i]) : li.rows[i][j] = 1

\* C4: a call with malformed inputs on a trainer whose graph is not yet
\* created raises an assertion failure and changes neither the trainer nor
\* the graph and its collections.
C4_MalformedRejected ==
    [][(callStep /\ ~graphCreated
          /\ (malformedShapes(argP', argT') \/ ~zerosThenOnes(argLI')))
         => (frame'.err = "AssertionError" /\ UNCHANGED <<fields, tfGraph>>)
      ]_vars

\* C6: with automode the first successful call puts trainOp and lossOp once
\* into their collections and no other call of the trainer adds anything;
\* without automode no call adds anything; apart from that the collections
\* grow only by an explicit createOpCollections(), one entry each.
C6_Collections ==
    [][/\ callStep =>
            IF automode /\ ~graphCreated /\ frame'.err = "none"
              THEN /\ trainColl' = Append(trainColl, trainOp')
                   /\ lossColl' = Append(lossColl, lossOp')
              ELSE UNCHANGED <<trainColl, lossColl>>
       /\ frame'.op = "createOpCollections" =>
            /\ trainColl' = Append(trainColl, trainOp)
            /\ lossColl' = Append(lossColl, lossOp)
       /\ <<trainColl, lossColl>>' # <<trainColl, lossColl>> =>
            frame'.op \in {"call", "createOpCollections"}
      ]_vars

\* C6 witness: with automode, a further call on the built trainer has
\* returned and each collection still holds the one entry.
C6_Witness ==
    /\ automode /\ frame.op = "call" /\ frame.entry /\ frame.err = "none"
    /\ trainColl = <<trainOp>> /\ lossColl = <<lossOp>>

\* C7: once the graph is created every call returns the pair
\* (lossOp, trainOp) whatever its arguments, and no step changes a field of
\* the trainer or adds a node to the graph.
C7_BuildOnce ==
    [][/\ (callStep /\ graphCreated) =>
            /\ frame'.err = "none"
            /\ frame'.ret = <<lossOp, trainOp>>
            /\ UNCHANGED <<fields, tfGraph>>
       /\ (callStep /\ ~graphCreated /\ frame'.err = "none") =>
            /\ graphCreated'
            /\ frame'.ret = <<lossOp', trainOp'>>
       /\ graphCreated => UNCHANGED <<fields, graphOps>>
      ]_vars

\* C7 witness: a call on the built trainer has returned the pair although
\* its arguments fail validation.
C7_Witness ==
    /\ frame.op = "call" /\ frame.entry /\ frame.err = "none"
    /\ frame.ret = <<lossOp, trainOp>>
    /\ validateInit(argP, argT, argLI).err # "none"

\* C8: graphCreated implies lossOp and trainOp are not None, the
\* assertions of lines 79, 80 and 88 never fail, and graphCreated never
\* goes back to False.
C8_GraphCreatedInvariant ==
    /\ [](graphCreated => lossOp # None /\ trainOp # None)
    /\ [](frame.line \notin {79, 80, 88})
    /\ [][graphCreated => graphCreated']_vars

\* C8 witness: trainModel has ended on a trainer whose graph is created.
C8_Witness ==
    /\ graphCreated /\ frame.op = "trainModel" /\ pc = "done"
    /\ Len(trainColl) = MaxColl

\* The mask C10 describes: of shape [numTimeSteps, numOutput], zero rows
\* then one or more all-one rows, the first of them at the index the
\* indicator-start search returns.
isMask(li) ==
    /\ zerosThenOnes(li)
    /\ Len(li.rows) = numTimeSteps
    /\ \A i \in 1..Len(li.rows) : Len(li.rows[i]) = numOutput
    /\ li.rows[findIndicatorStart(li) + 1][1] = 1
    /\ \A i \in 1..findIndicatorStart(li) : li.rows[i][1] = 0

\* C10: of the 2-D 0/1 arrays that reach the lossIndicator checks,
\* validation accepts exactly the masks and refuses the others with an
\* assertion failure.
C10_AcceptsExactlyMasks ==
    (frame.op = "call" /\ ~frame.entry /\ ~malformedShapes(argP, argT)
       /\ argLI.ndim = 2)
        => IF isMask(argLI)
             THEN frame.line \notin 69..74
             ELSE frame.err = "AssertionError" /\ frame.line \in 69..74

\* ------------------------------------------------------ trainModel claims
\* A step of trainModel's loop.
loopStep == pc = "loop" /\ vars' # vars

\* C2: with the default echo callback every session run made so far held
\* the train op and as many batches are counted as runs have succeeded;
\* trainModel stops only on the out-of-range signal, raised by run N+1 after
\* N successful runs, and then returns normally with currentBatch = N.
C2_DefaultRunsToExhaustion ==
    (frame.op = "trainModel" /\ echoCB = "default")
        => /\ ~wrapped
           /\ trainRuns = runCalls
           /\ currentBatch = sessData - dataLeft
           /\ pc = "loop" => runCalls = currentBatch
           /\ pc = "done" =>
                /\ raised = "OutOfRangeError" /\ dataLeft = 0
                /\ runCalls = sessData + 1 /\ currentBatch = sessData
                /\ frame.err = "none"

\* C2 witness: the default callback's trainModel has returned after using up
\* MaxData batches, some by the callback and some by the plain train step.
C2_Witness ==
    /\ frame.op = "trainModel" /\ echoCB = "default" /\ pc = "done"
    /\ sessData = MaxData /\ echoInterval = 2 /\ runCalls = MaxData + 1

\* C5: an iteration that raises the out-of-range signal ends trainModel
\* normally; one that raises anything else ends it with that error; in both
\* cases currentBatch keeps its value and no further session run is made.
C5_NoRecovery ==
    [][/\ loopStep =>
            /\ raised' = "none" => pc' = "loop"
            /\ raised' = "OutOfRangeError" =>
                 /\ pc' = "done" /\ frame'.err = "none"
                 /\ currentBatch' = currentBatch
            /\ raised' \notin {"none", "OutOfRangeError"} =>
                 /\ pc' = "raised" /\ frame'.err = raised'
                 /\ currentBatch' = currentBatch
       /\ pc \in {"done", "raised"} =>
            /\ pc' = "idle"
            /\ frame'.op = "none"
      ]_vars

\* C5 witness: an error other than out-of-range, raised inside the echo
\* callback at a batch after the first, has left trainModel.
C5_Witness ==
    /\ pc = "raised" /\ echoCB = "custom" /\ raised = "ValueError"
    /\ frame.err = "ValueError" /\ frame.line = 158 /\ currentBatch > 0

\* C9 as stated, its last part: whatever the echo callback, a trainModel
\* that is running eventually ends.
C9_AlwaysTerminates == (pc = "loop") ~> (pc # "loop")

\* C9 amended: the echo callback is invoked exactly at the multiples of
\* echoInterval, from 0 on and in increasing order, a plain train step is run
\* at every other batch, currentBatch grows by one after each iteration that
\* completes; and trainModel ends when the callback is the default one or
\* echoInterval is at least 2.
C9_EchoSchedule ==
    /\ [](~wrapped =>
            \A i \in 1..Len(echoLog) : echoLog[i] = (i - 1) * echoInterval)
    /\ [][(loopStep /\ ~wrapped) =>
            /\ IF currentBatch % echoInterval = 0
                 THEN echoLog' = Append(echoLog, currentBatch)
                 ELSE /\ echoLog' = echoLog
                      /\ runCalls' = runCalls + 1
                      /\ trainRuns' = trainRuns + 1
            /\ IF pc' = "loop"
                 THEN currentBatch' = currentBatch + 1 \/ wrapped'
                 ELSE currentBatch' = currentBatch
          ]_vars
    /\ (pc = "loop" /\ (echoCB = "default" \/ echoInterval >= 2))
          ~> (pc # "loop")

\* C9 witness: with echoInterval 2 a caller's callback has been invoked at
\* batches 0 and 2 and trainModel has ended.
C9_Witness ==
    /\ pc = "done" /\ echoCB = "custom" /\ echoInterval = 2
    /\ echoLog = <<0, 2>> /\ currentBatch = 3

====
